---- MODULE Spec2Model ----
(***************************************************************************)
(* Model of gdal_extras/gdal_convert.py: the conversion driver that        *)
(* resolves (input, output) jobs with parse_files and then, in main, opens  *)
(* every input, resolves format / pixel type / range, builds the translate  *)
(* options and issues one gdal.Translate call per job.                      *)
(*                                                                          *)
(* The raster library is the environment: which paths exist, what           *)
(* gdal.Open returns for a path and what a driver's metadata says are       *)
(* tables (DatasetOf, DriverByName).  The calls the program makes on the    *)
(* library (Open, Translate) are logged in opened and calls.                *)
(***************************************************************************)
EXTENDS Integers, Sequences, FiniteSets, TLC

VARIABLES
    argv,       \* the command line as supplied (never assigned after start)
    args,       \* the Namespace main works on (main assigns format and dtype)
    tree,       \* what inpath.rglob("*") yields, in the order it yields it
    pc,         \* "start", "loop", "done" (main returned), "failed" (raised)
    files,      \* parse_files' first list
    outfiles,   \* parse_files' second list
    bands_out,  \* the parsed -b list, or None
    k,          \* 1-based position of the for loop in zip(files, outfiles)
    opened,     \* log of the paths given to gdal.Open, in order
    calls,      \* log of the gdal.Translate calls issued, in order
    err         \* the exception that ended main, "none" otherwise

vars == <<argv, args, tree, pc, files, outfiles, bands_out, k, opened, calls, err>>

-----------------------------------------------------------------------------
(* Bounds of the explored inputs *)

MaxEntries == 3      \* entries under the input directory
MaxBandList == 2     \* indices in a -b request
MaxBandIndex == 4    \* largest index in a -b request
NegBandIndex == 1    \* -NegBandIndex is the smallest index in a -b request

-----------------------------------------------------------------------------
(* Python values *)

None == <<>>
Some(x) == <<x>>

\* str.lower on the strings that occur
Lower(s) ==
    CASE s = "Native"  -> "native"
      [] s = "NATIVE"  -> "native"
      [] s = ".XML"    -> ".xml"
      [] s = ".Xml"    -> ".xml"
      [] s = "COG"     -> "cog"
      [] s = "PNG"     -> "png"
      [] s = "MEM"     -> "mem"
      [] s = "GTiff"   -> "gtiff"
      [] s = "ESRI Shapefile" -> "esri shapefile"
      [] s = "Bogus"   -> "bogus"
      [] s = "Byte"    -> "byte"
      [] s = "UInt8"   -> "uint8"
      [] s = "UInt16"  -> "uint16"
      [] s = "UInt32"  -> "uint32"
      [] s = "Int16"   -> "int16"
      [] s = "Int32"   -> "int32"
      [] s = "Float32" -> "float32"
      [] s = "Float64" -> "float64"
      [] s = "CFloat32" -> "cfloat32"
      [] OTHER -> s

\* the decimal numerals that occur in a -b text
Numerals ==
    [n \in {"-4", "-3", "-2", "-1", "0", "1", "2", "3", "4", "5", "6", "7"} |->
        CASE n = "-4" -> 0 - 4 [] n = "-3" -> 0 - 3 [] n = "-2" -> 0 - 2
          [] n = "-1" -> 0 - 1 [] n = "0" -> 0 [] n = "1" -> 1 [] n = "2" -> 2
          [] n = "3" -> 3 [] n = "4" -> 4 [] n = "5" -> 5 [] n = "6" -> 6
          [] n = "7" -> 7]

\* int(b): None stands for the ValueError of a piece that is no numeral
IntOf(b) == IF b \in DOMAIN Numerals THEN Some(Numerals[b]) ELSE None

\* seq[j] for a Python (0-based, negative from the end) index j
PyInRange(seq, j) == (0 - Len(seq)) <= j /\ j < Len(seq)
PyItem(seq, j) == IF j < 0 THEN seq[Len(seq) + j + 1] ELSE seq[j + 1]

-----------------------------------------------------------------------------
(* pathlib.Path: parts are the directories above, name the final component *)
(* split at its dots ("a.tif" is <<"a", "tif">>, ".xml" is <<"", "xml">>).  *)

MkPath(parts, name) == [parts |-> parts, name |-> name]

\* Path("") is Path(".")
EmptyPath == MkPath(<<>>, <<>>)

Child(p, name) ==
    IF p = EmptyPath THEN MkPath(<<>>, name)
    ELSE MkPath(Append(p.parts, p.name), name)

Parent(p) ==
    IF p.parts = <<>> THEN EmptyPath
    ELSE MkPath(SubSeq(p.parts, 1, Len(p.parts) - 1), p.parts[Len(p.parts)])

\* PurePath.suffix: from the last dot, unless that dot is the first or the
\* last character of the name
Suffix(p) ==
    LET n == p.name IN
    IF /\ Len(n) >= 2
       /\ n[Len(n)] # ""
       /\ (Len(n) > 2 \/ n[1] # "")
    THEN "." \o n[Len(n)]
    ELSE ""

\* PurePath.stem, as the dot-separated pieces of the name before the suffix
Stem(p) ==
    IF Suffix(p) = "" THEN p.name ELSE SubSeq(p.name, 1, Len(p.name) - 1)

-----------------------------------------------------------------------------
(* The file system and the raster library *)

InDir == MkPath(<<>>, <<"in">>)
OutDir == MkPath(<<>>, <<"out">>)
OutFile == Child(OutDir, <<"x", "tif">>)       \* not on disk
Missing == MkPath(<<>>, <<"nowhere">>)         \* not on disk

SubDir == Child(InDir, <<"sub">>)
ATif == Child(InDir, <<"a", "tif">>)
SubATif == Child(SubDir, <<"a", "tif">>)
APng == Child(InDir, <<"a", "png">>)
AAux == Child(InDir, <<"a", "tif", "aux", "XML">>)
Notes == Child(InDir, <<"notes", "txt">>)

Universe == {SubDir, ATif, SubATif, APng, AAux, Notes}

Exists(p) ==
    \/ p \in {EmptyPath, InDir, OutDir}
    \/ \E i \in 1..Len(tree) : tree[i] = p

IsDir(p) == Exists(p) /\ p \in {EmptyPath, InDir, OutDir, SubDir}
IsFile(p) == Exists(p) /\ ~IsDir(p)

\* gdal.Open(path): a dataset, or None for what is no raster.
\* stats[b] is band b's GetStatistics(True, True): (min, max, mean, stddev).
DatasetOf(p) ==
    CASE p = ATif ->
           Some([driver |-> "GTiff",
                 types  |-> <<"Byte", "Byte", "Byte">>,
                 stats  |-> << <<10, 200, 90, 40>>, <<0, 255, 100, 50>>,
                               <<5, 90, 30, 20>> >>])
      [] p = SubATif ->
           Some([driver |-> "GTiff",
                 types  |-> <<"CFloat32", "CFloat32">>,
                 stats  |-> << <<1, 2, 1, 1>>, <<3, 4, 3, 1>> >>])
      [] p = APng ->
           Some([driver |-> "PNG",
                 types  |-> <<"UInt16">>,
                 stats  |-> << <<7, 60000, 300, 100>> >>])
      [] OTHER -> None

RasterCount(ds) == Len(ds.stats)

\* gdal.GetDriverByName(name) with the metadata the program reads:
\* DCAP_RASTER and DMD_EXTENSION
DriverByName(name) ==
    CASE name = "GTiff" -> Some([desc |-> "GTiff", raster |-> TRUE, ext |-> Some("tif")])
      [] name = "PNG"   -> Some([desc |-> "PNG", raster |-> TRUE, ext |-> Some("png")])
      [] name = "COG"   -> Some([desc |-> "COG", raster |-> TRUE, ext |-> None])
      [] name = "MEM"   -> Some([desc |-> "MEM", raster |-> TRUE, ext |-> None])
      [] name = "ESRI Shapefile" ->
           Some([desc |-> "ESRI Shapefile", raster |-> FALSE, ext |-> Some("shp")])
      [] OTHER -> None

-----------------------------------------------------------------------------
(* Module tables *)

BITRANGE ==
    [Byte    |-> <<"0.0", "255.0">>,
     UInt8   |-> <<"0.0", "255.0">>,
     UInt16  |-> <<"0.0", "65535.0">>,
     UInt32  |-> <<"0.0", "4294967295.0">>,
     Int16   |-> <<"-32768.0", "32767.0">>,
     Int32   |-> <<"-2147483648.0", "2147483647.0">>,
     Float32 |-> <<"0.0", "1.0">>,
     Float64 |-> <<"0.0", "1.0">>]

TYPE_DICT ==
    [Byte    |-> "GDT_Byte",
     UInt8   |-> "GDT_Byte",
     UInt16  |-> "GDT_UInt16",
     UInt32  |-> "GDT_UInt32",
     Int16   |-> "GDT_Int16",
     Int32   |-> "GDT_Int32",
     Float32 |-> "GDT_Float32",
     Float64 |-> "GDT_Float64"]

-----------------------------------------------------------------------------
(* getScaleParams and setupOptions *)

\* one [min, max] + outputRange per band of ds, in band order
getScaleParams(ds, outputRange) ==
    [i \in 1..RasterCount(ds) |-> <<ds.stats[i][1], ds.stats[i][2]>> \o outputRange]

\* bands = list(range(1, ds.RasterCount + 1)) when no bands are requested
DefaultBands(ds, bands) ==
    IF bands = None \/ bands = Some(<<>>)
    THEN [i \in 1..RasterCount(ds) |-> i]
    ELSE bands[1]

\* a lookup that falls back to a default instead of raising
LookupTypeOrDefault(outputType) ==
    IF outputType \in DOMAIN TYPE_DICT THEN Some(TYPE_DICT[outputType])
    ELSE Some("GDT_Unknown")

\* TYPE_DICT[outputType]: None stands for the KeyError of a name that is no key
LookupType(outputType) ==
    IF outputType \in DOMAIN TYPE_DICT THEN Some(TYPE_DICT[outputType]) ELSE None

\* the selection taken in the reverse of the requested order
SelectBandsReversed(scaleParams, bands) ==
    [j \in 1..Len(bands) |-> PyItem(scaleParams, bands[Len(bands) + 1 - j] - 1)]

\* [scaleParams[i - 1] for i in bands]
SelectBands(scaleParams, bands) ==
    [j \in 1..Len(bands) |-> PyItem(scaleParams, bands[j] - 1)]

setupOptions(ds, outputFormat, outputType, outputRange, bands) ==
    IF ds = None
    THEN [ok |-> FALSE, err |-> "AttributeError", options |-> None]
    ELSE LET scaleParams == getScaleParams(ds[1], outputRange)
             bandList == DefaultBands(ds[1], bands)
         IN  IF \E j \in 1..Len(bandList) : ~PyInRange(scaleParams, bandList[j] - 1)
             THEN [ok |-> FALSE, err |-> "IndexError", options |-> None]
             ELSE IF LookupType(outputType) = None
             THEN [ok |-> FALSE, err |-> "KeyError", options |-> None]
             ELSE [ok |-> TRUE, err |-> "none",
                   options |-> Some([format      |-> outputFormat,
                                     outputType  |-> LookupType(outputType)[1],
                                     bandList    |-> bandList,
                                     scaleParams |-> SelectBands(scaleParams, bandList)])]

-----------------------------------------------------------------------------
(* get_extension and parse_files *)

get_extension(input, format) ==
    LET native == Lower(format) = "native"
        ds == DatasetOf(input)
        opens == IF native THEN <<input>> ELSE <<>>
        drv == IF native
               THEN (IF ds = None THEN None ELSE DriverByName(ds[1].driver))
               ELSE DriverByName(format)
    IN  IF native /\ ds = None
        THEN [ok |-> FALSE, err |-> "AttributeError", ext |-> "", opens |-> opens]
        ELSE IF drv = None
        THEN [ok |-> FALSE, err |-> "AssertionError", ext |-> "", opens |-> opens]
        ELSE IF ~drv[1].raster
        THEN [ok |-> FALSE, err |-> "UnboundLocalError", ext |-> "", opens |-> opens]
        ELSE LET ext == IF format = "COG" THEN Some("tif") ELSE drv[1].ext
             IN  IF ext = None
                 THEN [ok |-> FALSE, err |-> "AssertionError", ext |-> "", opens |-> opens]
                 ELSE [ok |-> TRUE, err |-> "none", ext |-> ext[1], opens |-> opens]

\* the test without .lower(): it lets "a.tif.aux.XML" through
SkipCaseSensitive(f) == Suffix(f) = ".xml" \/ IsDir(f)

\* the test that skips auxiliary files and subdirectories
Skip(f) == Lower(Suffix(f)) = ".xml" \/ IsDir(f)

\* outpath / f"{f.stem}_converted.{ext}"
ConvertedPath(outpath, f, ext) ==
    LET s == Stem(f)
    IN  Child(outpath,
              Append(SubSeq(s, 1, Len(s) - 1) \o <<s[Len(s)] \o "_converted">>, ext))

\* the directory branch without its assert
OutputDirUnchecked(outpath) == TRUE

\* assert outpath.is_dir()
OutputDirOk(outpath) == IsDir(outpath)

ParseFailed(e, opens) ==
    [ok |-> FALSE, err |-> e, files |-> <<>>, outpaths |-> <<>>, opens |-> opens]

\* the for loop over inpath.rglob("*")
RECURSIVE ScanDir(_, _, _, _, _, _)
ScanDir(listing, outpath, format, fs, outs, opens) ==
    IF listing = <<>>
    THEN [ok |-> TRUE, err |-> "none", files |-> fs, outpaths |-> outs, opens |-> opens]
    ELSE LET f == Head(listing) IN
         IF Skip(f)
         THEN ScanDir(Tail(listing), outpath, format, fs, outs, opens)
         ELSE LET e == get_extension(f, format) IN
              IF ~e.ok
              THEN ParseFailed(e.err, opens \o e.opens)
              ELSE ScanDir(Tail(listing), outpath, format, Append(fs, f),
                           Append(outs, ConvertedPath(outpath, f, e.ext)),
                           opens \o e.opens)

\* input is a path ("" is EmptyPath); output is None or Some(path)
parse_files(input, output, format) ==
    IF ~(Exists(input) /\ input # EmptyPath)
    THEN ParseFailed("AssertionError", <<>>)
    ELSE IF IsDir(input)
    THEN IF output = None
         THEN ParseFailed("TypeError", <<>>)
         ELSE IF ~OutputDirOk(output[1])
         THEN ParseFailed("AssertionError", <<>>)
         ELSE ScanDir(tree, output[1], format, <<>>, <<>>, <<>>)
    ELSE IF ~IsFile(input)
    THEN ParseFailed("UnboundLocalError", <<>>)
    ELSE LET e == get_extension(input, format)
             absent == output = None \/ output = Some(EmptyPath)
         IN  IF ~e.ok
             THEN ParseFailed(e.err, e.opens)
             ELSE IF Lower(Suffix(input)) = ".xml"
             THEN ParseFailed("AssertionError", e.opens)
             ELSE [ok |-> TRUE, err |-> "none", files |-> <<input>>,
                   outpaths |-> IF absent
                                THEN <<Child(Parent(input), <<"converted", e.ext>>)>>
                                ELSE <<output[1]>>,
                   opens |-> e.opens]

-----------------------------------------------------------------------------
(* main *)

\* get_dtype: the type name of band 1 of a fresh handle on the file
get_dtype(input) ==
    LET ds == DatasetOf(input)
    IN  IF ds = None THEN None ELSE Some(ds[1].types[1])

JobFailed(a, e, opens) ==
    [ok |-> FALSE, err |-> e, args |-> a, call |-> None, opens |-> opens]

\* args.format after the "native" test of the loop body
ResolveFormat(a, ds) ==
    IF Lower(a.format) = "native" THEN ds.driver ELSE a.format

\* args.dtype after the "native" test of the loop body
ResolveDtype(a, native) ==
    IF Lower(a.dtype) = "native" THEN native ELSE a.dtype

\* a custom range honoured for the floating point types only
UsesCustomRangeForFloats(a) == a.range # None /\ a.dtype \in {"Float32", "Float64"}

\* if args.range: the custom range when one is given, else the table's
UsesCustomRange(a) == a.range # None

\* one pass through the body of the for loop
ProcessJob(a, entry, out, bands) ==
    LET ds == DatasetOf(entry)
        isNativeFormat == Lower(a.format) = "native"
        isNativeDtype == Lower(a.dtype) = "native"
    IN  IF isNativeFormat /\ ds = None
        THEN JobFailed(a, "AttributeError", <<entry>>)
        ELSE
        LET a1 == IF ds = None THEN a
                  ELSE [a EXCEPT !.format = ResolveFormat(a, ds[1])]
            opens == IF isNativeDtype THEN <<entry, entry>> ELSE <<entry>>
        IN  IF isNativeDtype /\ get_dtype(entry) = None
            THEN JobFailed(a1, "AttributeError", opens)
            ELSE
            LET a2 == IF isNativeDtype
                      THEN [a1 EXCEPT !.dtype = ResolveDtype(a1, get_dtype(entry)[1])]
                      ELSE a1
            IN  IF ~UsesCustomRange(a2) /\ a2.dtype \notin DOMAIN BITRANGE
                THEN JobFailed(a2, "KeyError", opens)
                ELSE
                LET outputRange == IF UsesCustomRange(a2) THEN a2.range[1]
                                   ELSE BITRANGE[a2.dtype]
                    o == setupOptions(ds, a2.format, a2.dtype, outputRange, bands)
                IN  IF ~o.ok
                    THEN JobFailed(a2, o.err, opens)
                    ELSE [ok |-> TRUE, err |-> "none", args |-> a2, opens |-> opens,
                          call |-> Some([destName |-> out, srcDS |-> entry,
                                         options |-> o.options[1]])]

\* a loop body wrapped in try/except that goes on to the next pair
AfterJobContinue(ok, i) == [pc |-> "loop", k |-> i + 1]

\* where the loop goes after a pass: on to the next pair, or out of main with
\* the exception
AfterJob(ok, i) ==
    IF ok THEN [pc |-> "loop", k |-> i + 1] ELSE [pc |-> "failed", k |-> i]

\* bands_out: the -b text split at commas, each piece through int(); bands is
\* None or Some(the pieces), Some(<<>>) the empty text
ParseBands(bands) ==
    IF bands = None \/ bands = Some(<<>>)
    THEN [ok |-> TRUE, bands |-> None]
    ELSE IF \E j \in 1..Len(bands[1]) : IntOf(bands[1][j]) = None
    THEN [ok |-> FALSE, bands |-> None]
    ELSE [ok |-> TRUE,
          bands |-> Some([j \in 1..Len(bands[1]) |-> IntOf(bands[1][j])[1]])]

\* parse_files and the band list
MainStart ==
    /\ pc = "start"
    /\ LET r == parse_files(args.input, args.output, args.format)
           b == ParseBands(args.bands)
       IN  /\ opened' = opened \o r.opens
           /\ files' = r.files
           /\ outfiles' = r.outpaths
           /\ pc' = IF r.ok /\ b.ok THEN "loop" ELSE "failed"
           /\ err' = IF ~r.ok THEN r.err ELSE IF ~b.ok THEN "ValueError" ELSE "none"
           /\ bands_out' = IF r.ok THEN b.bands ELSE None
    /\ UNCHANGED <<argv, args, tree, k, calls>>

\* one pass of the for loop
Job ==
    /\ pc = "loop"
    /\ k <= Len(files)
    /\ LET r == ProcessJob(args, files[k], outfiles[k], bands_out)
           n == AfterJob(r.ok, k)
       IN  /\ args' = r.args
           /\ opened' = opened \o r.opens
           /\ calls' = IF r.ok THEN Append(calls, r.call[1]) ELSE calls
           /\ pc' = n.pc
           /\ k' = n.k
           /\ err' = r.err
    /\ UNCHANGED <<argv, tree, files, outfiles, bands_out>>

\* zip is exhausted
MainReturn ==
    /\ pc = "loop"
    /\ k > Len(files)
    /\ pc' = "done"
    /\ UNCHANGED <<argv, args, tree, files, outfiles, bands_out, k, opened, calls, err>>

Next == MainStart \/ Job \/ MainReturn

-----------------------------------------------------------------------------
(* Initial states: a command line and a directory content *)

Injective(s) == \A i, j \in 1..Len(s) : s[i] = s[j] => i = j

InSeq(s, x) == \E i \in 1..Len(s) : s[i] = x

\* what rglob can yield: distinct entries in any order, a file of sub/ only
\* together with sub/
Listings ==
    {s \in UNION {[1..m -> Universe] : m \in 0..MaxEntries} :
        /\ Injective(s)
        /\ InSeq(s, SubATif) => InSeq(s, SubDir)}

BandValues == (0 - NegBandIndex)..MaxBandIndex

\* the pieces a -b text can have: the numerals of BandValues and a non-numeral
BandPieces == {n \in DOMAIN Numerals : Numerals[n] \in BandValues} \cup {"x"}

BandRequests ==
    {None} \cup {Some(s) : s \in UNION {[1..m -> BandPieces] : m \in 1..MaxBandList}}

CustomRange == Some(<<"0.0", "1000.0">>)

StartsWith(inputs, outputs, formats, dtypes, ranges, bandreqs) ==
    /\ \E io \in inputs, o \in outputs, f \in formats, d \in dtypes,
          r \in ranges, b \in bandreqs :
          /\ argv = [input |-> io.input, output |-> o, format |-> f, dtype |-> d,
                     range |-> r, bands |-> b]
          /\ tree = io.tree
    /\ args = argv
    /\ pc = "start"
    /\ files = <<>>
    /\ outfiles = <<>>
    /\ bands_out = None
    /\ k = 1
    /\ opened = <<>>
    /\ calls = <<>>
    /\ err = "none"

\* a directory with any listing, one file alone in the directory, or a path
\* that does not resolve
AllInputs ==
    {[input |-> InDir, tree |-> t] : t \in Listings}
      \cup {[input |-> f, tree |-> <<f>>] : f \in {ATif, APng, AAux, Notes}}
      \cup {[input |-> p, tree |-> <<>>] : p \in {EmptyPath, Missing}}

Outputs == {None, Some(EmptyPath), Some(OutDir), Some(OutFile)}

Init ==
    StartsWith(AllInputs, Outputs,
               {"Native", "native", "PNG", "COG", "MEM", "ESRI Shapefile", "Bogus"},
               {"Native", "native", "UInt16"},
               {None, CustomRange},
               {None, Some(<<"3", "1">>)})

Spec == Init /\ [][Next]_vars

\* the same program on few files and every band request and type name
FewInputs ==
    {[input |-> InDir, tree |-> t] :
        t \in {<<AAux>>, <<ATif>>, <<ATif, APng>>, <<APng, ATif>>}}
      \cup {[input |-> f, tree |-> <<f>>] : f \in {ATif, APng}}

InitOptions ==
    StartsWith(FewInputs, {None, Some(OutDir)},
               {"Native"},
               {"Native", "native", "Bogus", "CFloat32", "Byte", "UInt8", "Int16",
                "Float32"},
               {None, CustomRange},
               BandRequests)

SpecOptions == InitOptions /\ [][Next]_vars

-----------------------------------------------------------------------------
(* Properties *)

Returned == pc \in {"loop", "done"}

Finished == pc \in {"done", "failed"}

\* the dataset behind the i-th translate call
SourceOf(i) == DatasetOf(calls[i].srcDS)[1]

DirectoryRun == IsDir(argv.input) /\ argv.input # EmptyPath

\* the entries a directory run has to convert
Wanted(f) == ~IsDir(f) /\ Lower(Suffix(f)) # ".xml"

\* C1: for a directory input and an existing output directory, the two lists
\* parse_files returns have the same length; every entry under the input that
\* is no directory and whose suffix is not ".xml" in any letter case is in the
\* file list exactly once; nothing else is in it; and the output at the same
\* index is <output-dir>/<stem>_converted.<ext>, <ext> resolved for that file.
C1_DirectoryListing ==
    (Returned /\ DirectoryRun /\ argv.output # None /\ IsDir(argv.output[1])) =>
        /\ Len(files) = Len(outfiles)
        /\ \A t \in 1..Len(tree) :
               Wanted(tree[t]) =>
                   Cardinality({i \in 1..Len(files) : files[i] = tree[t]}) = 1
        /\ \A i \in 1..Len(files) : InSeq(tree, files[i]) /\ Wanted(files[i])
        /\ \A i \in 1..Len(files) :
               LET f == files[i]
                   stem == Stem(f)
                   ext == get_extension(f, argv.format).ext
                   last == stem[Len(stem)] \o "_converted"
                   dir == IF argv.output[1] = EmptyPath THEN <<>>
                          ELSE Append(argv.output[1].parts, argv.output[1].name)
               IN  /\ outfiles[i].parts = dir
                   /\ outfiles[i].name =
                          SubSeq(stem, 1, Len(stem) - 1) \o <<last, ext>>

\* a directory holding a raster, a subdirectory and an auxiliary file resolved
C1_Witness ==
    /\ Returned /\ DirectoryRun /\ argv.output = Some(OutDir)
    /\ InSeq(tree, AAux) /\ InSeq(tree, SubDir)
    /\ files = <<ATif>>
    /\ outfiles = <<Child(OutDir, <<"a_converted", "tif">>)>>

\* C2: with the format "Native", every translate call is given the driver
\* description of its own input dataset as format.
C2_NativeFormatPerJob ==
    argv.format = "Native" =>
        \A i \in 1..Len(calls) : calls[i].options.format = SourceOf(i).driver

\* C3: with the pixel type "Native", every translate call is given the type of
\* band 1 of its own input dataset, and without an explicit range the target
\* range of that type.
C3_NativeDtypePerJob ==
    argv.dtype = "Native" =>
        \A i \in 1..Len(calls) :
            LET own == SourceOf(i).types[1] IN
            /\ own \in DOMAIN TYPE_DICT
            /\ calls[i].options.outputType = TYPE_DICT[own]
            /\ argv.range = None =>
                   \A j \in 1..Len(calls[i].options.scaleParams) :
                       SubSeq(calls[i].options.scaleParams[j], 3, 4) = BITRANGE[own]

\* C4: every translate call issued has a band list within 1..RasterCount of
\* its source dataset.
C4_BandListInRange ==
    \A i \in 1..Len(calls) :
        \A j \in 1..Len(calls[i].options.bandList) :
            calls[i].options.bandList[j] \in 1..RasterCount(SourceOf(i))

\* the integers of the -b text (a translate call is only reached when every
\* piece is a numeral)
Requested == [j \in 1..Len(argv.bands[1]) |-> Numerals[argv.bands[1][j]]]

\* the requested indices all name a band of ds
ValidRequest(s, ds) == \A j \in 1..Len(s) : s[j] \in 1..RasterCount(ds)

\* C5: a requested band list within 1..RasterCount is passed unchanged as the
\* band list and the scale specification has the same length, its k-th entry
\* the tuple of the k-th requested band; with no request the band list is
\* 1..RasterCount ascending with one tuple per band in that order.
C5_BandOrder ==
    \A i \in 1..Len(calls) :
        LET o == calls[i].options
            ds == SourceOf(i)
            tupleOf(b, t) == Len(t) = 4 /\ t[1] = ds.stats[b][1] /\ t[2] = ds.stats[b][2]
        IN  /\ (argv.bands # None /\ ValidRequest(Requested, ds)) =>
                   /\ o.bandList = Requested
                   /\ Len(o.scaleParams) = Len(Requested)
                   /\ \A j \in 1..Len(Requested) :
                          tupleOf(Requested[j], o.scaleParams[j])
            /\ argv.bands = None =>
                   /\ o.bandList = [b \in 1..RasterCount(ds) |-> b]
                   /\ Len(o.scaleParams) = RasterCount(ds)
                   /\ \A b \in 1..RasterCount(ds) : tupleOf(b, o.scaleParams[b])

\* bands "3,1" of the three-band file translated
C5_Witness ==
    /\ Len(calls) >= 1
    /\ argv.bands = Some(<<"3", "1">>)
    /\ calls[1].srcDS = ATif
    /\ calls[1].options.bandList = <<3, 1>>
    /\ calls[1].options.scaleParams[1][1] = 5
    /\ calls[1].options.scaleParams[2][1] = 10

\* C6: the scale tuple passed for a band b is (min of b, max of b, lo, hi);
\* [lo, hi] is the explicit range whenever one is given, whatever the output
\* type, and else the table entry of the output type.
C6_ScaleTuples ==
    \A i \in 1..Len(calls) :
        LET o == calls[i].options
            ds == SourceOf(i)
        IN  \A j \in 1..Len(o.scaleParams) :
                LET b == o.bandList[j]
                    t == o.scaleParams[j]
                IN  b \in 1..RasterCount(ds) =>
                        /\ Len(t) = 4
                        /\ t[1] = ds.stats[b][1]
                        /\ t[2] = ds.stats[b][2]
                        /\ argv.range # None => SubSeq(t, 3, 4) = argv.range[1]
                        /\ argv.range = None =>
                               /\ \E n \in DOMAIN BITRANGE :
                                      /\ TYPE_DICT[n] = o.outputType
                                      /\ SubSeq(t, 3, 4) = BITRANGE[n]
                               /\ Lower(argv.dtype) # "native" =>
                                      SubSeq(t, 3, 4) = BITRANGE[argv.dtype]

\* an explicit range given with an integer type
C6_Witness ==
    /\ Len(calls) >= 1
    /\ calls[1].srcDS = ATif
    /\ argv.range = CustomRange /\ argv.dtype = "Int16"
    /\ calls[1].options.scaleParams[1] = <<10, 200, "0.0", "1000.0">>

Unrecognized(name) == name \notin DOMAIN TYPE_DICT

\* C7 as stated: a type name that is not "Native" and not one of the eight
\* makes main fail, and no translate call is issued.
C7_AsStated ==
    (argv.dtype # "Native" /\ Unrecognized(argv.dtype)) =>
        /\ calls = <<>>
        /\ Finished => pc = "failed"

\* C7: a type name that is not "Native" in any letter case and not one of the
\* eight never gets a translate call issued, and main fails whenever at least
\* one job was resolved.
C7_UnrecognizedType ==
    (Lower(argv.dtype) # "native" /\ Unrecognized(argv.dtype)) =>
        /\ calls = <<>>
        /\ (Finished /\ Len(files) >= 1) => pc = "failed"

\* an unknown type with an explicit range stopped at the first job
C7_Witness ==
    /\ argv.dtype = "Bogus" /\ argv.range # None
    /\ pc = "failed" /\ err = "KeyError"
    /\ Len(files) >= 1 /\ k = 1 /\ Len(opened) >= 1

\* C8: a directory input with no output path, or one that is no existing
\* directory, makes parse_files fail with no file opened and no translate call.
C8_DirectoryNeedsOutput ==
    (IsDir(argv.input) /\ (argv.output = None \/ ~IsDir(argv.output[1])) /\ pc # "start") =>
        /\ pc = "failed"
        /\ opened = <<>>
        /\ calls = <<>>
        /\ files = <<>>

\* a directory with a raster in it and an output that is no directory
C8_Witness ==
    /\ DirectoryRun /\ InSeq(tree, ATif)
    /\ argv.output = Some(OutFile) /\ Lower(argv.format) = "native"
    /\ pc = "failed" /\ err = "AssertionError"

\* C9: the i-th translate call is that of the i-th resolved job; a step adds
\* at most the call of the current job and keeps the earlier ones; nothing
\* happens after a failure; a run that returns has one call per job.
C9_Sequential ==
    /\ [][/\ pc # "failed"
          /\ \/ calls' = calls
             \/ /\ pc = "loop" /\ k' = k + 1
                /\ Len(calls') = k
                /\ SubSeq(calls', 1, Len(calls)) = calls
                /\ calls'[k].srcDS = files[k]
                /\ calls'[k].destName = outfiles[k]
          /\ (pc' = "failed" /\ pc = "loop") => (calls' = calls /\ Len(calls) = k - 1)]_vars
    /\ [](pc = "done" => Len(calls) = Len(files))

\* a batch that failed at its second job, after the first was translated
C9_Witness ==
    /\ pc = "failed" /\ k = 2 /\ Len(files) >= 2 /\ Len(calls) = 1
    /\ calls[1].srcDS = files[1]

\* C10: a directory run resolves distinct input files to distinct output
\* paths, so no translate call writes where an earlier call of the batch wrote.
C10_DistinctOutputs ==
    DirectoryRun =>
        /\ \A i, j \in 1..Len(outfiles) : outfiles[i] = outfiles[j] => i = j
        /\ \A i, j \in 1..Len(calls) : calls[i].destName = calls[j].destName => i = j

====
